---- MODULE Spec2Model ----
(***************************************************************************)
(* send_corp_tax_summary of miningtaxes-discord/discord_integration.py:    *)
(* the outstanding-balance summary formatter and its two-channel dispatch. *)
(*                                                                         *)
(* Python values are tagged, since the function is dynamically typed and   *)
(* its behaviour on a value of the wrong type (a TypeError caught by the   *)
(* function's own try/except) is part of what it does.  A dict is a TLA+   *)
(* function from key names to tagged values; a key the dict does not hold  *)
(* is outside its DOMAIN.  A balance is held in hundredths of a million    *)
(* ISK (12550 is 125.50), which makes the ",.2f" rendering exact; binary   *)
(* floating-point rounding of the sum is outside the model.                *)
(***************************************************************************)
EXTENDS Integers, Sequences, FiniteSets, TLC

VARIABLES
    webhook_url,        \* argument: "" stands for a falsy value (None or "")
    channel_id,         \* argument: 0 stands for a falsy value (None or 0)
    tax_data,           \* argument: the caller's list of dicts
    bot_installed,      \* environment: discord / aadiscordbot.tasks importable
    pc,                 \* position in the function body
    outstanding,        \* local: filtered, then sorted, working list
    total_outstanding,  \* local
    total_users,        \* local
    description,        \* local: the table, a sequence of lines
    fields,             \* local: the embed fields
    bot_outcome,        \* the bot branch: "untried", "ImportError", "build_raised", "send_raised", "queued"
    status_code,        \* response.status_code of the POST; 0 before any response
    outbox,             \* outbound calls made: send_message / requests.post, in order
    exc,                \* the exception that reached "except Exception", or "none"
    result              \* "pending", then what the caller gets

vars == <<webhook_url, channel_id, tax_data, bot_installed, pc, outstanding,
          total_outstanding, total_users, description, fields, bot_outcome,
          status_code, outbox, exc, result>>

args == <<webhook_url, channel_id, tax_data, bot_installed>>
locals == <<outstanding, total_outstanding, total_users, description, fields>>

-----------------------------------------------------------------------------
(* Python values *)

Num(n) == [t |-> "num", v |-> n]
Str(s) == [t |-> "str", v |-> s]
PyNone == [t |-> "none"]

\* dict.get(key, default)
Get(d, key, default) == IF key \in DOMAIN d THEN d[key] ELSE default

\* bool(webhook_url), bool(channel_id)
HasWebhook == webhook_url # ""
HasChannel == channel_id # 0

Min(a, b) == IF a <= b THEN a ELSE b

-----------------------------------------------------------------------------
(* Bounds and the inputs drawn under them *)

\* records of the caller's choosing placed around the run of filler records
MaxExtra == 2

\* "limit to top 25"
MaxRows == 25

WebhookUrl == "https://discord.com/api/webhooks/1/x"
ChannelId == 1234567890

JohnDoe == [username |-> Str("john_doe"), main_character |-> Str("John Doe"),
            balance |-> Num(12550)]
JaneSmith == [username |-> Str("jane_smith"), main_character |-> Str("Jane Smith"),
              balance |-> Num(8923)]
\* same balance as JaneSmith; both names are longer than the columns keep
LongName == [username |-> Str("a_username_of_24_letters"),
             main_character |-> Str("A Main Character Of 30 Letters"),
             balance |-> Num(8923)]
PaidUp == [username |-> Str("paid_up"), main_character |-> Str("Paid Up"),
           balance |-> Num(0)]
InCredit == [username |-> Str("in_credit"), balance |-> Num(-500)]
NoBalance == [username |-> Str("no_balance"), main_character |-> Str("No Balance")]
Anonymous == [balance |-> Num(30000)]
\* values of the wrong type
BadBalance == [username |-> Str("bad_balance"), balance |-> PyNone]
BadName == [username |-> PyNone, balance |-> Num(50)]

Pool == {JohnDoe, JaneSmith, LongName, PaidUp, InCredit, NoBalance, Anonymous,
         BadBalance, BadName}

Owing == [username |-> Str("filler"), main_character |-> Str("Filler"),
          balance |-> Num(10000)]
Fillers == {Owing, PaidUp}

FillCounts == {0, 1, MaxRows - 1, MaxRows}

SeqsUpTo(S, n) == UNION {[1..k -> S] : k \in 0..n}

\* extra[1..p], then count copies of filler, then the rest of extra
Around(extra, p, filler, count) ==
    SubSeq(extra, 1, p) \o [i \in 1..count |-> filler] \o SubSeq(extra, p + 1, Len(extra))

Placements == {<<extra, p>> \in SeqsUpTo(Pool, MaxExtra) \X (0..MaxExtra) : p <= Len(extra)}

TaxDataInputs ==
    {Around(pl[1], pl[2], filler, count) :
        pl \in Placements, filler \in Fillers, count \in FillCounts}

HttpStatuses == {200, 201, 204, 404, 500}

-----------------------------------------------------------------------------
(* The pure parts of the function *)

\* d.get('balance', 0) > 0 raises TypeError unless the value is a number
BalanceOf(d) == Get(d, "balance", Num(0))
FilterRaises(data) == \E i \in 1..Len(data) : BalanceOf(data[i]).t # "num"
\* the filter written with >= for >
QualifiesFromZero(d) == BalanceOf(d).v >= 0
Qualifies(d) == BalanceOf(d).v > 0

\* [d for d in tax_data if d.get('balance', 0) > 0]
Outstanding(data) == SelectSeq(data, Qualifies)

\* a descending sort that puts a record before the records of equal balance
\* placed earlier (an ascending sort followed by reverse())
RECURSIVE InsertBeforeEqual(_, _)
InsertBeforeEqual(s, d) ==
    IF Len(s) = 0 THEN <<d>>
    ELSE IF BalanceOf(Head(s)).v > BalanceOf(d).v
         THEN <<Head(s)>> \o InsertBeforeEqual(Tail(s), d)
         ELSE <<d>> \o s

\* list.sort(key=balance, reverse=True): stable, so a record goes after every
\* record placed before it whose balance is not smaller
RECURSIVE Insert(_, _)
Insert(s, d) ==
    IF Len(s) = 0 THEN <<d>>
    ELSE IF BalanceOf(Head(s)).v >= BalanceOf(d).v
         THEN <<Head(s)>> \o Insert(Tail(s), d)
         ELSE <<d>> \o s

RECURSIVE SortDesc(_)
SortDesc(s) ==
    IF Len(s) = 0 THEN <<>>
    ELSE Insert(SortDesc(SubSeq(s, 1, Len(s) - 1)), s[Len(s)])

\* the total taken over the displayed rows only
RECURSIVE SumFirst(_, _)
SumFirst(s, n) ==
    IF Len(s) = 0 \/ n = 0 THEN 0
    ELSE BalanceOf(Head(s)).v + SumFirst(Tail(s), n - 1)
SumShownOnly(s) == SumFirst(s, MaxRows)

\* sum(d.get('balance', 0) for d in outstanding)
RECURSIVE SumBalances(_)
SumBalances(s) ==
    IF Len(s) = 0 THEN 0 ELSE BalanceOf(Head(s)).v + SumBalances(Tail(s))

\* format(x, ",.2f") of a non-negative amount held in hundredths
Digit(n) == SubSeq("0123456789", n + 1, n + 1)

RECURSIVE Digits(_)
Digits(n) == IF n < 10 THEN Digit(n) ELSE Digits(n \div 10) \o Digit(n % 10)

RECURSIVE Grouped(_)
Grouped(n) ==
    IF n < 1000 THEN Digits(n)
    ELSE Grouped(n \div 1000) \o "," \o Digit((n % 1000) \div 100)
             \o Digit((n % 100) \div 10) \o Digit(n % 10)

Format2f(h) ==
    Grouped(h \div 100) \o "." \o Digit((h % 100) \div 10) \o Digit(h % 10)

\* value[:n] raises TypeError unless the value is a string
Slice(s, n) == SubSeq(s, 1, Min(n, Len(s)))

\* the rows shown: outstanding[:25]
Shown(sorted) == SubSeq(sorted, 1, Min(MaxRows, Len(sorted)))

RowRaises(d) ==
    \/ Get(d, "username", Str("Unknown")).t # "str"
    \/ Get(d, "main_character", Str("N/A")).t # "str"

RenderRaises(sorted) == \E i \in 1..Len(Shown(sorted)) : RowRaises(sorted[i])

Row(d) ==
    [kind |-> "row",
     username |-> Slice(Get(d, "username", Str("Unknown")).v, 19),
     main_char |-> Slice(Get(d, "main_character", Str("N/A")).v, 24),
     balance |-> Format2f(BalanceOf(d).v) \o "M"]

Separator == [kind |-> "separator", width |-> 60]

\* the overflow test written with >= for >
OverflowLinesFromLimit(sorted) ==
    IF Len(sorted) >= MaxRows
    THEN <<[kind |-> "blank"], [kind |-> "more", count |-> Len(sorted) - MaxRows]>>
    ELSE <<>>

OverflowLines(sorted) ==
    IF Len(sorted) > MaxRows
    THEN <<[kind |-> "blank"], [kind |-> "more", count |-> Len(sorted) - MaxRows]>>
    ELSE <<>>

Description(sorted, total) ==
    <<[kind |-> "fence"], [kind |-> "header"], Separator>>
    \o [i \in 1..Len(Shown(sorted)) |-> Row(sorted[i])]
    \o OverflowLines(sorted)
    \o <<Separator, [kind |-> "total", balance |-> Format2f(total) \o "M"],
         [kind |-> "fence"]>>

\* str(x) inside an f-string: any value renders, None as "None"
FStr(value) == IF value.t = "str" THEN value.v ELSE "None"

TopDebtors(sorted) ==
    [i \in 1..3 |->
        [rank |-> i,
         username |-> FStr(Get(sorted[i], "username", Str("Unknown"))),
         balance |-> Format2f(BalanceOf(sorted[i]).v) \o "M ISK"]]

\* the top-debtors test written with > for >=
FieldsAboveThree(sorted, total) ==
    <<[name |-> "Summary", users |-> Len(sorted),
       total |-> Format2f(total) \o " M ISK"]>>
    \o (IF Len(sorted) > 3
        THEN <<[name |-> "Top Debtors", value |-> TopDebtors(sorted)]>>
        ELSE <<>>)

Fields(sorted, total) ==
    <<[name |-> "Summary", users |-> Len(sorted),
       total |-> Format2f(total) \o " M ISK"]>>
    \o (IF Len(sorted) >= 3
        THEN <<[name |-> "Top Debtors", value |-> TopDebtors(sorted)]>>
        ELSE <<>>)

\* a handler written as "except requests.RequestException"
CaughtRequestOnly(e) == e = "RequestException"

\* "except Exception": every exception class the body can raise derives from it
Caught(e) == e \in {"TypeError", "ValueError", "BotError", "RequestException"}
Handler(e) == IF Caught(e) THEN "False" ELSE "raised"

\* success taken as any 2xx status
DeliveredAny2xx(code) == code \in 200..299

\* response.status_code in [200, 204]
Delivered(code) == code \in {200, 204}

-----------------------------------------------------------------------------
(* The function, step by step *)

Init ==
    /\ webhook_url \in {"", WebhookUrl}
    /\ channel_id \in {0, ChannelId}
    /\ tax_data \in TaxDataInputs
    /\ bot_installed \in BOOLEAN
    /\ pc = "check_args"
    /\ outstanding = <<>>
    /\ total_outstanding = 0
    /\ total_users = 0
    /\ description = <<>>
    /\ fields = <<>>
    /\ bot_outcome = "untried"
    /\ status_code = 0
    /\ outbox = <<>>
    /\ exc = "none"
    /\ result = "pending"

Return(value) == pc' = "done" /\ result' = value

Raise(e) == pc' = "done" /\ exc' = e /\ result' = Handler(e)

\* the guard without its "or not tax_data"
NoDestinationOnly == ~HasWebhook /\ ~HasChannel

\* (not webhook_url and not channel_id) or not tax_data
NothingToSend == (~HasWebhook /\ ~HasChannel) \/ Len(tax_data) = 0

\* if ...: return False
CheckArgs ==
    /\ pc = "check_args"
    /\ IF NothingToSend
       THEN Return("False")
       ELSE pc' = "filter" /\ UNCHANGED result
    /\ UNCHANGED <<args, locals, bot_outcome, status_code, outbox, exc>>

FilterOutstanding ==
    /\ pc = "filter"
    /\ IF FilterRaises(tax_data)
       THEN Raise("TypeError") /\ UNCHANGED outstanding
       ELSE /\ outstanding' = Outstanding(tax_data)
            /\ UNCHANGED exc
            /\ IF Len(outstanding') = 0
               THEN Return("True")
               ELSE pc' = "render" /\ UNCHANGED result
    /\ UNCHANGED <<args, total_outstanding, total_users, description, fields,
                   bot_outcome, status_code, outbox>>

\* the sort applied to the caller's own list (tax_data.sort(...), or
\* outstanding bound to tax_data itself)
TaxDataSortedInPlace == SortDesc(tax_data)

\* the caller's list after outstanding.sort(...): the comprehension bound
\* outstanding to a list of its own, so the sort reorders that one only, and
\* the records the two lists share are read with get() and never written
TaxDataAfterSort == tax_data

BuildReport ==
    /\ pc = "render"
    /\ outstanding' = SortDesc(outstanding)
    /\ total_outstanding' = SumBalances(outstanding')
    /\ total_users' = Len(outstanding')
    /\ IF RenderRaises(outstanding')
       THEN Raise("TypeError") /\ UNCHANGED <<description, fields>>
       ELSE /\ description' = Description(outstanding', total_outstanding')
            /\ fields' = Fields(outstanding', total_outstanding')
            /\ pc' = "dispatch"
            /\ UNCHANGED <<exc, result>>
    /\ tax_data' = TaxDataAfterSort
    /\ UNCHANGED <<webhook_url, channel_id, bot_installed, bot_outcome,
                   status_code, outbox>>

BotMessage ==
    [via |-> "bot", to |-> channel_id, description |-> description,
     fields |-> fields, footer_users |-> total_users]

WebhookPayload ==
    [via |-> "webhook", to |-> webhook_url, description |-> description,
     fields |-> fields, footer_users |-> total_users]

\* channel_id is falsy: straight to the webhook
NoChannel ==
    /\ pc = "dispatch"
    /\ ~HasChannel
    /\ pc' = "webhook"
    /\ UNCHANGED <<args, locals, bot_outcome, status_code, outbox, exc, result>>

\* ImportError handled with no fallback to the webhook
BotImportErrorNoFallback ==
    /\ pc = "dispatch"
    /\ HasChannel
    /\ ~bot_installed
    /\ bot_outcome' = "ImportError"
    /\ Return("False")
    /\ UNCHANGED <<args, locals, status_code, outbox, exc>>

\* the imports raise ImportError
BotImportError ==
    /\ pc = "dispatch"
    /\ HasChannel
    /\ ~bot_installed
    /\ bot_outcome' = "ImportError"
    /\ IF ~HasWebhook
       THEN Return("False")
       ELSE pc' = "webhook" /\ UNCHANGED result
    /\ UNCHANGED <<args, locals, status_code, outbox, exc>>

\* Embed(...), add_field, set_footer or int(channel_id) raises: nothing is sent
BotBuildRaises ==
    /\ pc = "dispatch"
    /\ HasChannel
    /\ bot_installed
    /\ bot_outcome' = "build_raised"
    /\ Raise("ValueError")
    /\ UNCHANGED <<args, locals, status_code, outbox>>

\* the inner handler written as "except Exception": any bot failure falls back
BotSendRaisesFallsBack ==
    /\ pc = "dispatch"
    /\ HasChannel
    /\ bot_installed
    /\ bot_outcome' = "send_raised"
    /\ outbox' = Append(outbox, BotMessage)
    /\ IF ~HasWebhook
       THEN Return("False")
       ELSE pc' = "webhook" /\ UNCHANGED result
    /\ UNCHANGED <<args, locals, status_code, exc>>

\* send_message is called and raises
BotSendRaises ==
    /\ pc = "dispatch"
    /\ HasChannel
    /\ bot_installed
    /\ bot_outcome' = "send_raised"
    /\ outbox' = Append(outbox, BotMessage)
    /\ Raise("BotError")
    /\ UNCHANGED <<args, locals, status_code>>

\* the bot branch without its "return True": execution runs on into the webhook
BotQueuedNoReturn ==
    /\ pc = "dispatch"
    /\ HasChannel
    /\ bot_installed
    /\ bot_outcome' = "queued"
    /\ outbox' = Append(outbox, BotMessage)
    /\ pc' = "webhook"
    /\ UNCHANGED <<args, locals, status_code, exc, result>>

\* send_message queues the embed
BotQueued ==
    /\ pc = "dispatch"
    /\ HasChannel
    /\ bot_installed
    /\ bot_outcome' = "queued"
    /\ outbox' = Append(outbox, BotMessage)
    /\ Return("True")
    /\ UNCHANGED <<args, locals, status_code, exc>>

\* "if webhook_url:" with no else: the function ends and returns None
WebhookSkipped ==
    /\ Return("None")
    /\ UNCHANGED <<status_code, outbox, exc>>

\* requests.post answers with a status code
WebhookAnswered ==
    /\ pc = "webhook"
    /\ IF HasWebhook
       THEN /\ outbox' = Append(outbox, WebhookPayload)
            /\ \E code \in HttpStatuses :
                 /\ status_code' = code
                 /\ Return(IF Delivered(code) THEN "True" ELSE "False")
            /\ UNCHANGED exc
       ELSE WebhookSkipped
    /\ UNCHANGED <<args, locals, bot_outcome>>

\* a failed POST tried a second time before giving up
WebhookRaisesRetried ==
    /\ pc = "webhook"
    /\ HasWebhook
    /\ outbox' = Append(Append(outbox, WebhookPayload), WebhookPayload)
    /\ Raise("RequestException")
    /\ UNCHANGED <<args, locals, bot_outcome, status_code>>

\* requests.post raises (connection error, timeout)
WebhookRaises ==
    /\ pc = "webhook"
    /\ HasWebhook
    /\ outbox' = Append(outbox, WebhookPayload)
    /\ Raise("RequestException")
    /\ UNCHANGED <<args, locals, bot_outcome, status_code>>

Next ==
    \/ CheckArgs
    \/ FilterOutstanding
    \/ BuildReport
    \/ NoChannel
    \/ BotImportError
    \/ BotBuildRaises
    \/ BotSendRaises
    \/ BotQueued
    \/ WebhookAnswered
    \/ WebhookRaises

Spec == Init /\ [][Next]_vars

-----------------------------------------------------------------------------
(* What the claims speak of, stated on the arguments and the outbound calls *)

Done == pc = "done"

\* outbound calls by kind: requests.post calls and send_message calls
Posts == Len(SelectSeq(outbox, LAMBDA m : m.via = "webhook"))
Enqueues == Len(SelectSeq(outbox, LAMBDA m : m.via = "bot"))

\* a qualifying record: a balance that is present, a number, and above zero
IsOwed(d) == "balance" \in DOMAIN d /\ d.balance.t = "num" /\ d.balance.v > 0
OwedAt(data) == {i \in 1..Len(data) : IsOwed(data[i])}

\* every field a record holds has the type the docstring gives it
Typed(d) ==
    /\ "balance" \in DOMAIN d => d.balance.t = "num"
    /\ "username" \in DOMAIN d => d.username.t = "str"
    /\ "main_character" \in DOMAIN d => d.main_character.t = "str"
AllTyped(data) == \A i \in 1..Len(data) : Typed(data[i])

-----------------------------------------------------------------------------
(* C1 *)

\* C1 as the claim states it: with channel_id set, the bot importable and
\* send_message not raising, a finished call has made no HTTP POST and exactly
\* one bot enqueue, and has returned true.
C1_AsClaimed ==
    (Done /\ HasChannel /\ bot_installed /\ bot_outcome # "send_raised")
        => (Posts = 0 /\ Enqueues = 1 /\ result = "True")

\* C1 (amended): with channel_id set and the bot importable no HTTP POST is
\* ever made, whatever webhook_url is; and when in addition tax_data holds at
\* least one qualifying record, every record is of the documented types and
\* neither building the embed nor send_message raises, a finished call has
\* made exactly one bot enqueue as its only outbound call and returned true.
C1_BotPreferred ==
    /\ (HasChannel /\ bot_installed) => Posts = 0
    /\ (/\ Done /\ HasChannel /\ bot_installed
        /\ bot_outcome \notin {"build_raised", "send_raised"}
        /\ OwedAt(tax_data) # {} /\ AllTyped(tax_data))
           => (Len(outbox) = 1 /\ Enqueues = 1 /\ result = "True")

C1_Witness ==
    /\ Done /\ HasChannel /\ HasWebhook /\ bot_installed
    /\ bot_outcome = "queued" /\ Enqueues = 1 /\ Posts = 0 /\ result = "True"

-----------------------------------------------------------------------------
(* C2 *)

\* C2 as the claim states it: with at least one qualifying record, channel_id
\* set and the bot not importable, a finished call has made exactly one HTTP
\* POST when webhook_url is set, and has returned false with no outbound call
\* when it is not.
C2_AsClaimed ==
    (Done /\ HasChannel /\ ~bot_installed /\ OwedAt(tax_data) # {})
        => /\ HasWebhook => Posts = 1
           /\ ~HasWebhook => (result = "False" /\ Len(outbox) = 0)

\* C2 (amended): with at least one qualifying record, every record of the
\* documented types, channel_id set and the bot not importable, a finished
\* call has made exactly one call of requests.post and no bot enqueue when
\* webhook_url is set, and has returned false with no outbound call when it
\* is not; without webhook_url the webhook is never reached.
C2_FallbackNeedsWebhook ==
    /\ (Done /\ HasChannel /\ ~bot_installed /\ OwedAt(tax_data) # {}
             /\ AllTyped(tax_data))
         => /\ bot_outcome = "ImportError"
            /\ HasWebhook => (Posts = 1 /\ Len(outbox) = 1)
            /\ ~HasWebhook => (result = "False" /\ Len(outbox) = 0)
    /\ ~HasWebhook => (pc # "webhook" /\ Posts = 0)

C2_Witness ==
    /\ Done /\ HasChannel /\ HasWebhook /\ ~bot_installed
    /\ bot_outcome = "ImportError" /\ Posts = 1 /\ Enqueues = 0

-----------------------------------------------------------------------------
(* C3 *)

\* C3 as the claim states it: for every input list with no qualifying record
\* a finished call has returned true and made no outbound call.
C3_AsClaimed ==
    (Done /\ OwedAt(tax_data) = {}) => (result = "True" /\ Len(outbox) = 0)

\* C3 (amended): for every input list with no qualifying record no outbound
\* call is made; the call returns true when the list is non-empty, every
\* balance in it is a number or absent, and webhook_url or channel_id is set,
\* and returns false otherwise.
C3_NothingOwed ==
    OwedAt(tax_data) = {}
      => /\ Len(outbox) = 0
         /\ Done =>
              (result = "True" <=>
                  /\ Len(tax_data) > 0
                  /\ HasWebhook \/ HasChannel
                  /\ \A i \in 1..Len(tax_data) :
                        "balance" \in DOMAIN tax_data[i]
                            => tax_data[i].balance.t = "num")
         /\ Done => result \in {"True", "False"}

C3_Witness ==
    /\ Done /\ result = "True" /\ Len(outbox) = 0
    /\ Len(tax_data) > MaxRows /\ OwedAt(tax_data) = {}
    /\ \E i \in 1..Len(tax_data) : tax_data[i] = NoBalance
    /\ \E i \in 1..Len(tax_data) : tax_data[i] = InCredit

-----------------------------------------------------------------------------
(* C4 *)

\* C4: when webhook_url and channel_id are both absent, or tax_data is empty,
\* the call is over as soon as the arguments are checked: it returns false,
\* nothing is filtered or rendered, and no outbound call is made, whatever
\* tax_data holds.
C4_EarlyExit ==
    ((~HasWebhook /\ ~HasChannel) \/ Len(tax_data) = 0) /\ pc # "check_args"
        => /\ Done /\ result = "False"
           /\ Len(outbox) = 0 /\ bot_outcome = "untried" /\ status_code = 0
           /\ exc = "none" /\ Len(outstanding) = 0 /\ Len(description) = 0

C4_Witness ==
    /\ Done /\ result = "False" /\ ~HasWebhook /\ ~HasChannel
    /\ Cardinality(OwedAt(tax_data)) > MaxRows

-----------------------------------------------------------------------------
(* C5 *)

\* C5: once the bot branch has failed for a reason other than ImportError
\* (building the embed or send_message raised), the call is over with false
\* and no HTTP POST has been made nor can be, webhook_url set or not; the
\* attempted enqueue, if any, is the only outbound call.
C5_BotFailureIsFinal ==
    bot_outcome \in {"build_raised", "send_raised"}
        => /\ Done /\ result = "False"
           /\ Posts = 0 /\ status_code = 0
           /\ Len(outbox) = (IF bot_outcome = "send_raised" THEN 1 ELSE 0)
           /\ ~ENABLED Next

C5_Witness ==
    /\ Done /\ HasChannel /\ HasWebhook /\ bot_installed
    /\ bot_outcome = "send_raised" /\ exc = "BotError" /\ result = "False"

-----------------------------------------------------------------------------
(* C6 *)

\* C6: the call never raises to its caller and never ends without a value:
\* the dispatch steps, where the outside world decides, always have a next
\* step, and when the call is over the result is exactly true or false, for every webhook_url, channel_id, bot
\* availability, HTTP outcome and list of records, those of the wrong type
\* included; an exception inside the body always ends the call with false.
C6_AlwaysBoolean ==
    /\ result \in {"pending", "True", "False"}
    /\ Done <=> result # "pending"
    /\ pc \in {"check_args", "filter", "render", "dispatch", "webhook", "done"}
    /\ pc \in {"dispatch", "webhook"} => ENABLED Next
    /\ exc # "none" => (Done /\ result = "False")

C6_Witness ==
    /\ Done /\ result = "False" /\ exc = "TypeError"
    /\ \E i \in 1..Len(tax_data) : tax_data[i] = BadName
    /\ AllTyped(SubSeq(tax_data, 1, Len(tax_data) - 1))

-----------------------------------------------------------------------------
(* C7 *)

\* C7: a call makes at most one outbound call in all, a bot enqueue or an
\* HTTP POST and never both; a send that failed is not tried again.
C7_AtMostOneOutbound ==
    /\ Len(outbox) <= 1
    /\ Posts + Enqueues <= 1
    /\ (exc \in {"BotError", "RequestException"} \/ (status_code # 0 /\ result = "False"))
           => (Len(outbox) = 1 /\ ~ENABLED Next)

C7_Witness ==
    /\ Done /\ HasChannel /\ HasWebhook /\ ~bot_installed
    /\ exc = "RequestException" /\ result = "False" /\ Posts = 1

-----------------------------------------------------------------------------
(* C8 *)

\* C8: when the POST to the webhook was answered, the call returns true if
\* and only if the status is 200 or 204; every other status gives false, and
\* no exception is involved.
C8_StatusDecides ==
    status_code # 0
        => /\ Done /\ Posts = 1 /\ exc = "none"
           /\ result \in {"True", "False"}
           /\ result = "True" <=> (status_code = 200 \/ status_code = 204)

C8_Witness ==
    Done /\ status_code = 201 /\ result = "False" /\ Posts = 1

-----------------------------------------------------------------------------
(* Reading the rendered report back *)

\* the report as BuildReport leaves it; no later step writes to it
ReportBuilt == pc = "dispatch"

\* the lines of one kind, in order
LinesOf(text, kind) == SelectSeq(text, LAMBDA line : line.kind = kind)

DigitValue(c) ==
    CASE c = "0" -> 0 [] c = "1" -> 1 [] c = "2" -> 2 [] c = "3" -> 3
      [] c = "4" -> 4 [] c = "5" -> 5 [] c = "6" -> 6 [] c = "7" -> 7
      [] c = "8" -> 8 [] c = "9" -> 9 [] OTHER -> -1

\* the amount a rendered text such as "1,234.56M" shows, in hundredths: its
\* digits read left to right, on condition that exactly two digits follow the
\* point; -1 when the text is not of that shape
RECURSIVE AmountRead(_, _, _, _)
AmountRead(text, at, acc, after) ==
    IF at > Len(text) THEN (IF after = 2 THEN acc ELSE -1)
    ELSE LET c == SubSeq(text, at, at) IN
         IF DigitValue(c) >= 0
         THEN AmountRead(text, at + 1, 10 * acc + DigitValue(c),
                         IF after >= 0 THEN after + 1 ELSE after)
         ELSE IF c = "." THEN AmountRead(text, at + 1, acc, 0)
         ELSE AmountRead(text, at + 1, acc, after)
AmountShown(text) == AmountRead(text, 1, 0, -1)

\* the amounts a sequence of lines shows, line by line
RECURSIVE AmountsOf(_)
AmountsOf(lines) ==
    IF Len(lines) = 0 THEN <<>>
    ELSE <<AmountShown(Head(lines).balance)>> \o AmountsOf(Tail(lines))

\* the balances of the qualifying records of the input, in input order
OwedBalances(data) ==
    LET owed == SelectSeq(data, IsOwed) IN [k \in 1..Len(owed) |-> owed[k].balance.v]

RECURSIVE SumOwed(_, _)
SumOwed(data, upto) ==
    IF upto = 0 THEN 0
    ELSE SumOwed(data, upto - 1) + (IF IsOwed(data[upto]) THEN data[upto].balance.v ELSE 0)

\* how often a value occurs in a sequence
Times(s, x) == Cardinality({k \in 1..Len(s) : s[k] = x})

-----------------------------------------------------------------------------
(* C9 *)

\* C9: whenever a report is built, the amount on its TOTAL line and the
\* amount in its summary field both read as the sum of balance over every
\* qualifying record of the input, displayed or not; records with a balance
\* that is zero, negative or absent add nothing; and total_users is the
\* number of qualifying records.  What is sent carries the same report.
C9_TotalCoversAll ==
    /\ \A k \in 1..Len(outbox) :
          outbox[k].description = description /\ outbox[k].fields = fields
    /\ Len(outbox) > 0 => Len(description) > 0
    /\ ReportBuilt =>
        /\ Len(LinesOf(description, "total")) = 1
        /\ AmountShown(LinesOf(description, "total")[1].balance)
               = SumOwed(tax_data, Len(tax_data))
        /\ fields[1].name = "Summary"
        /\ AmountShown(fields[1].total) = SumOwed(tax_data, Len(tax_data))
        /\ fields[1].users = Cardinality(OwedAt(tax_data))
        /\ total_users = Cardinality(OwedAt(tax_data))

C9_Witness ==
    /\ ReportBuilt
    /\ Cardinality(OwedAt(tax_data)) > MaxRows
    /\ \E i \in 1..Len(tax_data) : tax_data[i] = InCredit
    /\ \E i \in 1..Len(tax_data) : tax_data[i] = JohnDoe
    /\ LinesOf(description, "total")[1].balance = "2,625.50M"

-----------------------------------------------------------------------------
(* C10 *)

\* C10: whenever a report is built from n qualifying records, it has exactly
\* min(n, 25) rows; the amounts of the rows never increase down the table and
\* are the min(n, 25) highest qualifying balances (every balance above the
\* last row's is shown as often as it occurs, none is shown more often than
\* it occurs); for n > 25 there is exactly one overflow line and it states
\* n - 25, and for n <= 25 there is none.
C10_RowsAndOverflow ==
    ReportBuilt =>
        LET n == Cardinality(OwedAt(tax_data))
            owed == OwedBalances(tax_data)
            rows == LinesOf(description, "row")
            shown == AmountsOf(rows)
            more == LinesOf(description, "more")
        IN  /\ n > 0
            /\ Len(rows) = (IF n > 25 THEN 25 ELSE n)
            /\ \A k \in 1..(Len(rows) - 1) : shown[k] >= shown[k + 1]
            /\ \A x \in {shown[k] : k \in 1..Len(rows)} : Times(shown, x) <= Times(owed, x)
            /\ \A x \in {owed[k] : k \in 1..n} :
                  x > shown[Len(rows)] => Times(shown, x) = Times(owed, x)
            /\ Len(more) = (IF n > 25 THEN 1 ELSE 0)
            /\ n > 25 => more[1].count = n - 25

C10_Witness ==
    /\ ReportBuilt
    /\ Cardinality(OwedAt(tax_data)) = MaxRows + 2
    /\ Len(LinesOf(description, "row")) = MaxRows
    /\ LinesOf(description, "more") = <<[kind |-> "more", count |-> 2]>>
    /\ \E i \in 1..Len(tax_data) : tax_data[i] = JaneSmith
    /\ \A k \in 1..MaxRows : LinesOf(description, "row")[k].username # "jane_smith"

-----------------------------------------------------------------------------
(* C11 *)

\* the fields of the report that carry the top-debtors block
TopBlocks == SelectSeq(fields, LAMBDA f : f.name = "Top Debtors")

\* the name a record goes by in the top-debtors block
NameOf(d) ==
    IF "username" \notin DOMAIN d THEN "Unknown"
    ELSE IF d.username.t = "str" THEN d.username.v ELSE "None"

\* C11: whenever a report is built from n qualifying records, it carries one
\* top-debtors block if n >= 3 and none if n < 3; the block has exactly 3
\* entries, numbered 1, 2, 3 in that order; the amounts of the entries never
\* increase and are the 3 highest qualifying balances (every balance above
\* the third entry's is listed as often as it occurs, none more often than it
\* occurs); and every entry names a qualifying record of the input that has
\* the entry's amount.
C11_TopThree ==
    ReportBuilt =>
        LET n == Cardinality(OwedAt(tax_data))
            owed == OwedBalances(tax_data)
        IN  /\ Len(TopBlocks) = (IF n >= 3 THEN 1 ELSE 0)
            /\ n >= 3 =>
                LET top == TopBlocks[1].value
                    listed == AmountsOf(<<top[1], top[2], top[3]>>)
                IN  /\ DOMAIN top = 1..3
                    /\ \A k \in 1..3 : top[k].rank = k
                    /\ listed[1] >= listed[2] /\ listed[2] >= listed[3]
                    /\ \A x \in {listed[k] : k \in 1..3} :
                          Times(listed, x) <= Times(owed, x)
                    /\ \A x \in {owed[k] : k \in 1..n} :
                          x > listed[3] => Times(listed, x) = Times(owed, x)
                    /\ \A k \in 1..3 : \E i \in OwedAt(tax_data) :
                          /\ tax_data[i].balance.v = listed[k]
                          /\ NameOf(tax_data[i]) = top[k].username

\* exactly three qualify, the lowest of them first in the input: the block
\* lists it last
C11_Witness ==
    /\ ReportBuilt
    /\ Cardinality(OwedAt(tax_data)) = 3
    /\ tax_data[1] = JaneSmith
    /\ Len(TopBlocks) = 1
    /\ TopBlocks[1].value[1].username = "john_doe"
    /\ TopBlocks[1].value[1].balance = "125.50M ISK"
    /\ TopBlocks[1].value[3].username = "jane_smith"

-----------------------------------------------------------------------------
(* C12 *)

\* the qualifying records of the input that owe v, in input order
OwingExactly(data, v) == SelectSeq(data, LAMBDA d : IsOwed(d) /\ d.balance.v = v)

\* the name a record goes by in a row of the table
RowNameOf(d) ==
    IF Len(NameOf(d)) > 19 THEN SubSeq(NameOf(d), 1, 19) ELSE NameOf(d)

IsPrefix(a, b) == Len(a) <= Len(b) /\ a = SubSeq(b, 1, Len(a))

\* the names on those of the lines whose amount in shown is v, in line order
NamesAt(lines, shown, v) ==
    LET at == SelectSeq([k \in 1..Len(lines) |-> k], LAMBDA k : shown[k] = v)
    IN  [j \in 1..Len(at) |-> lines[at[j]].username]

\* the rows of the table and the entries of the top-debtors block
Rows == LinesOf(description, "row")
TopEntries == IF Len(TopBlocks) = 1 THEN [k \in 1..3 |-> TopBlocks[1].value[k]] ELSE <<>>

\* the names on the rows that show the amount v, top to bottom
RowNamesAt(v) == NamesAt(Rows, AmountsOf(Rows), v)

\* the names of the top-debtors entries that show the amount v, in rank order
TopNamesAt(v) == NamesAt(TopEntries, AmountsOf(TopEntries), v)

\* records of equal balance stand in the sorted list, in the rows and in the
\* top-debtors block in the order the input has them
TiesKeepInputOrder ==
    LET rows == Rows
        shown == AmountsOf(rows)
        top == TopEntries
        listed == AmountsOf(top)
    IN  \A v \in {outstanding[k].balance.v : k \in 1..Len(outstanding)} :
            LET tied == OwingExactly(tax_data, v)
            IN  /\ SelectSeq(outstanding, LAMBDA d : d.balance.v = v) = tied
                /\ IsPrefix(NamesAt(rows, shown, v),
                            [k \in 1..Len(tied) |-> RowNameOf(tied[k])])
                /\ IsPrefix(NamesAt(top, listed, v),
                            [k \in 1..Len(tied) |-> NameOf(tied[k])])

\* C12 as stated: whenever a report is built, each record of the sorted list
\* has a balance strictly below the one before it, and records of equal
\* balance keep their input order.
C12_AsClaimed ==
    ReportBuilt =>
        /\ \A k \in 1..(Len(outstanding) - 1) :
              outstanding[k].balance.v > outstanding[k + 1].balance.v
        /\ TiesKeepInputOrder

\* C12 (amended): whenever a report is built, the balances of the sorted
\* list never increase, nor do the amounts down the rows or down the
\* top-debtors block, and records of equal balance keep their input order in
\* all three.
C12_StableDescending ==
    ReportBuilt =>
        LET shown == AmountsOf(Rows)
            listed == AmountsOf(TopEntries)
        IN  /\ \A k \in 1..(Len(outstanding) - 1) :
                  outstanding[k].balance.v >= outstanding[k + 1].balance.v
            /\ \A k \in 1..(Len(shown) - 1) : shown[k] >= shown[k + 1]
            /\ \A k \in 1..(Len(listed) - 1) : listed[k] >= listed[k + 1]
            /\ TiesKeepInputOrder

\* two users owe the same and the later of them in the input has the name
\* that sorts first: the rows and the block keep the input order
C12_Witness ==
    /\ ReportBuilt
    /\ \E i, j \in 1..Len(tax_data) :
          i < j /\ tax_data[i] = JaneSmith /\ tax_data[j] = LongName
    /\ Len(TopBlocks) = 1
    /\ TopNamesAt(8923) = <<"jane_smith", "a_username_of_24_letters">>
    /\ RowNamesAt(8923) = <<"jane_smith", "a_username_of_24_le">>

-----------------------------------------------------------------------------
(* C13 *)

\* C13: no step of a call changes the caller's list: from its first
\* statement to its return, whether it returns early, fails or sends, tax_data
\* holds the same records in the same order with the same field values.
C13_InputUntouched == [][tax_data' = tax_data]_vars

\* a call that sent a report for which the filter dropped a record and the
\* sort moved another has returned, and the input still has them as given
C13_Witness ==
    /\ Done
    /\ result = "True"
    /\ Len(outbox) = 1
    /\ tax_data = <<PaidUp, JaneSmith, JohnDoe>>
    /\ outstanding = <<JohnDoe, JaneSmith>>

====
